---- MODULE Spec2Model ----
(***************************************************************************)
(* HahOrNahBot: the conversation controller of a joke-voting chat bot.     *)
(*                                                                         *)
(* The model follows src/app/HahOrNahBot.py.  One inbound message is       *)
(* handled to completion per step.  The dispatcher offers the message to   *)
(* the handlers in the order they were added (all in one group); the first *)
(* handler whose check accepts the message runs, the others do not.  The   *)
(* two ConversationHandlers keep one state per chat each, independently.   *)
(* Private chats are modelled: the chat id is the sender's identity, so    *)
(* user_data and the conversation keys are indexed by identity.            *)
(*                                                                         *)
(* app.models (User, Joke, User.vote_for_joke) is not part of the source   *)
(* at hand; the definitions User_vote_for_joke, jokes_submitted and        *)
(* jokes_voted follow the written specification of these records.          *)
(***************************************************************************)
EXTENDS Integers, Sequences, FiniteSets, TLC

\* ------------------------------------------------------------------ bounds
\* At most MaxJokes jokes are submitted in a run.
MaxJokes == 2

\* The chat identities that send messages.
Identities == {"u1", "u2"}

\* --------------------------------------------------------------- constants
JOKE_LENGTH_MIN == 10
JOKE_LENGTH_MAX == 1000
USERNAME_LENGTH_MIN == 5
USERNAME_LENGTH_MAX == 20

\* ascii_letters + digits + '-_'
USERNAME_ALLOWED_CHARACTERS ==
    { "a","b","c","d","e","f","g","h","i","j","k","l","m",
      "n","o","p","q","r","s","t","u","v","w","x","y","z",
      "A","B","C","D","E","F","G","H","I","J","K","L","M",
      "N","O","P","Q","R","S","T","U","V","W","X","Y","Z",
      "0","1","2","3","4","5","6","7","8","9","-","_" }

\* The conversation states of the two flows (both are 0 in the source; each
\* ConversationHandler has its own table of conversations).
USERNAME_RECEIVED == 0
JOKE_RECEIVED == 0

\* ConversationHandler.END, returned by cancel.
END == -1

\* Python's None: a handler's "return" without a value, and the state of a
\* chat that has no entry in a ConversationHandler's table.
None == -2

\* user_data has no 'last_joke' key.
NoJoke == -1

\* ---------------------------------------------------------------- messages
\* A message is a command (its text starts with '/') or plain text.  A text
\* is held run by run: << <<"a", 3>>, <<"b", 1>> >> is "aaab".
Run(c, n) == << c, n >>

RECURSIVE len(_)
\* len(text)
len(text) == IF text = << >> THEN 0 ELSE Head(text)[2] + len(Tail(text))

\* A plausible slip: only the first character is looked at.
set_m(text) == IF text = << >> THEN {} ELSE { text[1][1] }

\* set(text)
set(text) == { text[i][1] : i \in { k \in DOMAIN text : text[k][2] > 0 } }

\* The text on the register button ('user_new_keyboard_button'); the source
\* documents it as a command string ("/whatever string is stored ...").
RegisterButton == "/register"

Commands ==
    { "/start", "/help", "/cancel", RegisterButton, "/add_joke",
      "/random_joke", "/random_favorite_joke", "/best_joke",
      "/hah", "/nah", "/profile", "/top10", "/menu" }

\* Plain texts on both sides of the validation limits of the two flows.
Texts ==
    { << Run("a", 4) >>,                    \* too short for both
      << Run("b", 5) >>,                    \* a username, too short a joke
      << Run("a", 10) >>,                   \* a username and a joke
      << Run("a", 1001) >>,                 \* too long for both
      << Run("a", 5), Run(" ", 1) >> }      \* a character outside the charset

Messages ==
    { [command |-> c, text |-> <<>>] : c \in Commands } \cup
    { [command |-> "", text |-> t] : t \in Texts }

\* Filters.text: a text message that is not a command.
Filters_text(m) == m.command = ""

\* ------------------------------------------------------------------- state
VARIABLES
    users,           \* the User table: identity -> [username, score]
    jokes,           \* the Joke table: id -> [body, vote_count, author]
    jokes_voted_for, \* per identity, the votes cast: a set of <<id, positive>>
    user_data,       \* per identity: the dispatcher's user_data dict
    new_user_conv,   \* new_user_handler.conversations: identity -> state
    new_joke_conv    \* new_joke_handler.conversations: identity -> state

vars == <<users, jokes, jokes_voted_for, user_data, new_user_conv, new_joke_conv>>

data == <<users, jokes, jokes_voted_for>>

\* ----------------------------------------------------------------- helpers
Max(S) == CHOOSE x \in S : \A y \in S : y <= x

\* What a callback leaves behind: the tables and user_data as it leaves
\* them, the value it returns, the replies it sent (their keys in the
\* responses file, in order; "joke_body" is the body of joke shown).
Result(us, jk, jv, ud, ret, reply, shown) ==
    [ users |-> us, jokes |-> jk, jokes_voted_for |-> jv, user_data |-> ud,
      ret |-> ret, reply |-> reply, shown |-> shown ]

\* ------------------------------------------------------------ app.models
\* A plausible slip: the relationship is not loaded and reads as empty.
jokes_submitted_m(u) == {}

\* User.jokes_submitted: the jokes whose author is the user.
jokes_submitted(u) == { j \in DOMAIN jokes : jokes[j].author = u }

\* The jokes among the user's recorded votes ("joke in user.jokes_voted_for").
jokes_voted(u) == { v[1] : v \in jokes_voted_for[u] }

\* User.get_jokes_voted_positive
get_jokes_voted_positive(u) == { v[1] : v \in { w \in jokes_voted_for[u] : w[2] } }

\* User.vote_for_joke(joke, positive): InvalidVote for a joke the user wrote
\* or voted on already; otherwise the vote is recorded and the joke's
\* vote_count moves by one.
User_vote_for_joke(u, j, positive) ==
    IF j \in jokes_submitted(u) \/ j \in jokes_voted(u)
    THEN [ raised |-> "InvalidVote", jokes |-> jokes, jokes_voted_for |-> jokes_voted_for ]
    ELSE [ raised |-> "",
           jokes |-> [ jokes EXCEPT ![j].vote_count =
                          IF positive THEN @ + 1 ELSE @ - 1 ],
           jokes_voted_for |-> [ jokes_voted_for EXCEPT ![u] = @ \cup { <<j, positive>> } ] ]

\* --------------------------------------------------------- private methods
\* A plausible slip: a missing row does not raise UserDoesNotExist.
private_get_user_m(u) ==
    [ found |-> TRUE, user_data |-> [ user_data EXCEPT ![u].current_user = TRUE ] ]

\* private_get_user: the cached user, else the row of the User table; the
\* row found is cached.  found = FALSE is UserDoesNotExist.
private_get_user(u) ==
    IF user_data[u].current_user
    THEN [ found |-> TRUE, user_data |-> user_data ]
    ELSE IF u \notin DOMAIN users
         THEN [ found |-> FALSE, user_data |-> user_data ]
         ELSE [ found |-> TRUE,
                user_data |-> [ user_data EXCEPT ![u].current_user = TRUE ] ]

\* A plausible slip: the lengths are checked before the characters.
private_add_user_length_first(user_id, username) ==
    IF len(username) < USERNAME_LENGTH_MIN
    THEN [ raised |-> "TooShort", users |-> users ]
    ELSE IF USERNAME_LENGTH_MAX < len(username)
    THEN [ raised |-> "TooLong", users |-> users ]
    ELSE IF ~ (set(username) \subseteq USERNAME_ALLOWED_CHARACTERS)
    THEN [ raised |-> "InvalidCharacters", users |-> users ]
    ELSE IF user_id \in DOMAIN users
    THEN [ raised |-> "AssertionError", users |-> users ]
    ELSE [ raised |-> "",
           users |-> [ i \in DOMAIN users \cup { user_id } |->
                         IF i = user_id
                         THEN [ username |-> username, score |-> 0 ]
                         ELSE users[i] ] ]

\* A plausible slip: no assertion that the identity is new; the row is
\* written again.
private_add_user_m(user_id, username) ==
    IF ~ (set(username) \subseteq USERNAME_ALLOWED_CHARACTERS)
    THEN [ raised |-> "InvalidCharacters", users |-> users ]
    ELSE IF len(username) < USERNAME_LENGTH_MIN
    THEN [ raised |-> "TooShort", users |-> users ]
    ELSE IF USERNAME_LENGTH_MAX < len(username)
    THEN [ raised |-> "TooLong", users |-> users ]
    ELSE [ raised |-> "",
           users |-> [ i \in DOMAIN users \cup { user_id } |->
                         IF i = user_id
                         THEN [ username |-> username, score |-> 0 ]
                         ELSE users[i] ] ]

\* private_add_user: the checks in the order of the source, then the
\* assertion that the identity is new, then the insert.
private_add_user(user_id, username) ==
    IF ~ (set(username) \subseteq USERNAME_ALLOWED_CHARACTERS)
    THEN [ raised |-> "InvalidCharacters", users |-> users ]
    ELSE IF len(username) < USERNAME_LENGTH_MIN
    THEN [ raised |-> "TooShort", users |-> users ]
    ELSE IF USERNAME_LENGTH_MAX < len(username)
    THEN [ raised |-> "TooLong", users |-> users ]
    ELSE IF user_id \in DOMAIN users
    THEN [ raised |-> "AssertionError", users |-> users ]
    ELSE [ raised |-> "",
           users |-> [ i \in DOMAIN users \cup { user_id } |->
                         IF i = user_id
                         THEN [ username |-> username, score |-> 0 ]
                         ELSE users[i] ] ]

\* A plausible slip: the new joke starts with one vote counted.
Joke_m(joke_body, author) == [ body |-> joke_body, vote_count |-> 1, author |-> author ]

\* Joke(id=joke_id, body=joke_body, vote_count=0, author=author): the row
\* stored under joke_id.
Joke(joke_body, author) == [ body |-> joke_body, vote_count |-> 0, author |-> author ]

\* A plausible slip: the id is the last joke's id, without the "+ 1".
joke_id_m == IF DOMAIN jokes = {} THEN 0 ELSE Max(DOMAIN jokes)

\* The id of a new joke: the id of the last joke by order_by(Joke.id) plus
\* one, 0 when there is no joke (IndexError).
joke_id == IF DOMAIN jokes = {} THEN 0 ELSE Max(DOMAIN jokes) + 1

\* A plausible slip: the upper limit is compared with "<=".
private_add_joke_m(joke_body, author) ==
    IF len(joke_body) < JOKE_LENGTH_MIN
    THEN [ raised |-> "TooShort", jokes |-> jokes ]
    ELSE IF JOKE_LENGTH_MAX <= len(joke_body)
    THEN [ raised |-> "TooLong", jokes |-> jokes ]
    ELSE [ raised |-> "",
           jokes |-> [ i \in DOMAIN jokes \cup { joke_id } |->
                         IF i = joke_id THEN Joke(joke_body, author) ELSE jokes[i] ] ]

\* private_add_joke: the length checks, then id = last id + 1 (0 for an
\* empty table), then the insert.
private_add_joke(joke_body, author) ==
    IF len(joke_body) < JOKE_LENGTH_MIN
    THEN [ raised |-> "TooShort", jokes |-> jokes ]
    ELSE IF JOKE_LENGTH_MAX < len(joke_body)
    THEN [ raised |-> "TooLong", jokes |-> jokes ]
    ELSE [ raised |-> "",
           jokes |-> [ i \in DOMAIN jokes \cup { joke_id } |->
                         IF i = joke_id
                         THEN Joke(joke_body, author)
                         ELSE jokes[i] ] ]

\* -------------------------------------------------------------- dispatcher
\* ConversationHandler.update_state: END removes the chat's entry, None
\* leaves it, any other value becomes the chat's state.
update_state(conv, u, new_state) ==
    IF new_state = END THEN [ conv EXCEPT ![u] = None ]
    ELSE IF new_state = None THEN conv
    ELSE [ conv EXCEPT ![u] = new_state ]

\* new_user_handler.check_update: the callback the message selects, "" when
\* the handler does not take the message.
new_user_handler(u, m) ==
    IF new_user_conv[u] = None
    THEN IF m.command = RegisterButton THEN "new_user_prompt" ELSE ""
    ELSE IF new_user_conv[u] = USERNAME_RECEIVED /\ Filters_text(m)
         THEN "new_user_received_username"
         ELSE IF m.command = "/cancel" THEN "cancel" ELSE ""

\* new_joke_handler.check_update
new_joke_handler(u, m) ==
    IF new_joke_conv[u] = None
    THEN IF m.command = "/add_joke" THEN "new_joke_prompt" ELSE ""
    ELSE IF new_joke_conv[u] = JOKE_RECEIVED /\ Filters_text(m)
         THEN "new_joke_received"
         ELSE IF m.command = "/cancel" THEN "cancel" ELSE ""

\* The handlers in the order they are added to the dispatcher; the first
\* one that takes the message handles it.
handlers(u, m) ==
    IF m.command = "/start" THEN [ via |-> "start_handler", callback |-> "menu" ]
    ELSE IF m.command = "/help" THEN [ via |-> "help_handler", callback |-> "help" ]
    ELSE IF new_user_handler(u, m) # ""
    THEN [ via |-> "new_user_handler", callback |-> new_user_handler(u, m) ]
    ELSE IF new_joke_handler(u, m) # ""
    THEN [ via |-> "new_joke_handler", callback |-> new_joke_handler(u, m) ]
    ELSE IF m.command = "/cancel"
    THEN [ via |-> "cancel_handler", callback |-> "cancel" ]
    ELSE IF m.command = "/random_joke"
    THEN [ via |-> "random_joke_handler", callback |-> "display_random_joke" ]
    ELSE IF m.command = "/random_favorite_joke"
    THEN [ via |-> "random_favorite_joke_handler",
           callback |-> "display_random_favorite_joke" ]
    ELSE IF m.command = "/best_joke"
    THEN [ via |-> "best_joke_handler", callback |-> "display_best_joke" ]
    ELSE IF m.command \in { "/hah", "/nah" }
    THEN [ via |-> "vote_handler", callback |-> "vote_for_joke" ]
    ELSE IF m.command = "/profile"
    THEN [ via |-> "profile_handler", callback |-> "profile" ]
    ELSE IF m.command = "/top10"
    THEN [ via |-> "top10_handler", callback |-> "top10" ]
    ELSE [ via |-> "menu_handler", callback |-> "menu" ]

Selects(u, m, callback) == handlers(u, m).callback = callback

\* -------------------------------------------------------------------- Init
Init ==
    /\ users = << >>
    /\ jokes = << >>
    /\ jokes_voted_for = [ u \in Identities |-> {} ]
    /\ user_data = [ u \in Identities |->
                       [ current_user |-> FALSE, user |-> FALSE, last_joke |-> NoJoke ] ]
    /\ new_user_conv = [ u \in Identities |-> None ]
    /\ new_joke_conv = [ u \in Identities |-> None ]

\* The dispatcher runs the selected callback; the value the callback returns
\* goes to update_state of the ConversationHandler it ran in, if any.
new_user_conv_after(u, m, r) ==
    IF handlers(u, m).via = "new_user_handler"
    THEN update_state(new_user_conv, u, r.ret)
    ELSE new_user_conv

new_joke_conv_after(u, m, r) ==
    IF handlers(u, m).via = "new_joke_handler"
    THEN update_state(new_joke_conv, u, r.ret)
    ELSE new_joke_conv

Handled(u, m, r) ==
    /\ users' = r.users
    /\ jokes' = r.jokes
    /\ jokes_voted_for' = r.jokes_voted_for
    /\ user_data' = r.user_data
    /\ new_user_conv' = new_user_conv_after(u, m, r)
    /\ new_joke_conv' = new_joke_conv_after(u, m, r)

\* ---------------------------------------------------------------- handlers
\* The reply of a callback that found no user: display_new_user_keyboard.
not_registered == << "user_not_registered" >>

\* A callback that changes nothing but the user cache.
Answer(g, reply, shown) ==
    Result(users, jokes, jokes_voted_for, g.user_data, None, reply, shown)

\* menu (also the callback of /start and of any unmatched message)
menu_result(u, m) ==
    LET g == private_get_user(u)
    IN  Answer(g, IF g.found THEN << "menu" >> ELSE not_registered, NoJoke)

menu(u, m) == Selects(u, m, "menu") /\ Handled(u, m, menu_result(u, m))

help_result(u, m) ==
    Result(users, jokes, jokes_voted_for, user_data, None, << "help" >>, NoJoke)

help(u, m) == Selects(u, m, "help") /\ Handled(u, m, help_result(u, m))

\* cancel returns ConversationHandler.END.
cancel_result(u, m) ==
    Result(users, jokes, jokes_voted_for, user_data, END, << "cancel", "menu" >>, NoJoke)

cancel(u, m) == Selects(u, m, "cancel") /\ Handled(u, m, cancel_result(u, m))

new_user_prompt_result(u, m) ==
    Result(users, jokes, jokes_voted_for, user_data, USERNAME_RECEIVED,
           << "user_new_prompt" >>, NoJoke)

new_user_prompt(u, m) ==
    Selects(u, m, "new_user_prompt") /\ Handled(u, m, new_user_prompt_result(u, m))

\* A plausible slip: a validation failure ends the conversation.
new_user_received_username_return_m(raised) ==
    IF raised \in { "InvalidCharacters", "TooShort", "TooLong" } THEN END ELSE None

\* What new_user_received_username returns: "finally: return", on every path.
new_user_received_username_return(raised) == None

\* The replies of new_user_received_username; the AssertionError of an
\* identity registered already is dropped by the "return" in "finally".
new_user_received_username_reply(raised) ==
    CASE raised = "" -> << "user_register_success", "menu" >>
      [] raised = "InvalidCharacters" -> << "username_invalid_characters" >>
      [] raised = "TooShort" -> << "username_too_short" >>
      [] raised = "TooLong" -> << "username_too_long" >>
      [] OTHER -> << >>

new_user_received_username_result(u, m) ==
    LET r == private_add_user(u, m.text)
    IN  Result(r.users, jokes, jokes_voted_for,
               IF r.raised = "" THEN [ user_data EXCEPT ![u].user = TRUE ] ELSE user_data,
               new_user_received_username_return(r.raised),
               new_user_received_username_reply(r.raised), NoJoke)

new_user_received_username(u, m) ==
    /\ Selects(u, m, "new_user_received_username")
    /\ Handled(u, m, new_user_received_username_result(u, m))

new_joke_prompt_result(u, m) ==
    Result(users, jokes, jokes_voted_for, user_data, JOKE_RECEIVED,
           << "joke_new_prompt" >>, NoJoke)

new_joke_prompt(u, m) ==
    Selects(u, m, "new_joke_prompt") /\ Handled(u, m, new_joke_prompt_result(u, m))

\* What new_joke_received returns after private_add_joke: "finally: return".
new_joke_received_return(raised) == None

new_joke_received_reply(raised) ==
    CASE raised = "" -> << "joke_submitted", "menu" >>
      [] raised = "TooShort" -> << "joke_too_short" >>
      [] raised = "TooLong" -> << "joke_too_long" >>
      [] OTHER -> << >>

new_joke_received_result(u, m) ==
    LET g == private_get_user(u)
        r == private_add_joke(m.text, u)
    IN  IF ~ g.found
        THEN Answer(g, not_registered, NoJoke)
        ELSE Result(users, r.jokes, jokes_voted_for, g.user_data,
                    new_joke_received_return(r.raised),
                    new_joke_received_reply(r.raised), NoJoke)

\* A run holds at most MaxJokes jokes: no further one is submitted then.
new_joke_received(u, m) ==
    /\ Selects(u, m, "new_joke_received")
    /\ DOMAIN new_joke_received_result(u, m).jokes # DOMAIN jokes
          => Cardinality(DOMAIN jokes) < MaxJokes
    /\ Handled(u, m, new_joke_received_result(u, m))

\* ------------------------------------------------------ display and voting
\* The orders a list of the jokes in S can have.
Orders(S) ==
    { o \in [ 1..Cardinality(S) -> S ] : \A i, k \in DOMAIN o : i # k => o[i] # o[k] }

\* A plausible slip: the jokes voted on already are not filtered out.
unseen_author_only(u, j) == ~ (j \in jokes_submitted(u))

\* A plausible slip: the author's own jokes are not filtered out.
unseen_m(u, j) == ~ (j \in jokes_voted(u))

\* "if not voted_already and not user_is_author"
unseen(u, j) ==
    LET voted_already == j \in jokes_voted(u)
        user_is_author == j \in jokes_submitted(u)
    IN  ~ voted_already /\ ~ user_is_author

\* A plausible slip: a loop that finds nothing leaves the joke it looked at
\* first to be displayed.
first_unseen_m(u, order) ==
    LET hits == { i \in DOMAIN order : unseen(u, order[i]) }
    IN  IF order = << >> THEN NoJoke
        ELSE IF hits = {} THEN order[1]
        ELSE order[CHOOSE i \in hits : \A k \in hits : i <= k]

\* The joke the "for" loop over the list stops at: the first unseen one,
\* NoJoke when the loop runs to its end.
first_unseen(u, order) ==
    LET hits == { i \in DOMAIN order : unseen(u, order[i]) }
    IN  IF hits = {} THEN NoJoke ELSE order[CHOOSE i \in hits : \A k \in hits : i <= k]

\* display_random_joke: shuffle(all_jokes) leaves the list in any order; one
\* result per joke the loop can stop at.
display_random_joke_results(u, m) ==
    LET g == private_get_user(u)
    IN  IF ~ g.found
        THEN { Answer(g, not_registered, NoJoke) }
        ELSE IF DOMAIN jokes = {}
        THEN { Answer(g, << "no_new_jokes" >>, NoJoke) }
        ELSE { IF random_joke # NoJoke
               THEN Result(users, jokes, jokes_voted_for,
                           [ g.user_data EXCEPT ![u].last_joke = random_joke ],
                           None, << "joke_body", "hah_or_nah" >>, random_joke)
               ELSE Answer(g, << "no_new_jokes" >>, NoJoke)
               : random_joke \in
                    { first_unseen(u, all_jokes) : all_jokes \in Orders(DOMAIN jokes) } }

display_random_joke(u, m) ==
    /\ Selects(u, m, "display_random_joke")
    /\ \E r \in display_random_joke_results(u, m) : Handled(u, m, r)

\* display_random_favorite_joke: choice() among the jokes voted positive.
display_random_favorite_joke_results(u, m) ==
    LET g == private_get_user(u)
    IN  IF ~ g.found
        THEN { Answer(g, not_registered, NoJoke) }
        ELSE IF get_jokes_voted_positive(u) = {}
        THEN { Answer(g, << "joke_no_favorite" >>, NoJoke) }
        ELSE { Answer(g, << "joke_body" >>, random_joke)
               : random_joke \in get_jokes_voted_positive(u) }

display_random_favorite_joke(u, m) ==
    /\ Selects(u, m, "display_random_favorite_joke")
    /\ \E r \in display_random_favorite_joke_results(u, m) : Handled(u, m, r)

\* A plausible slip: the jokes are ordered by descending vote_count, the
\* "best" first.
jokes_by_score_m ==
    { o \in Orders(DOMAIN jokes) :
        \A i, k \in DOMAIN o : i < k => jokes[o[i]].vote_count >= jokes[o[k]].vote_count }

\* order_by(Joke.vote_count): ascending; rows of equal vote_count in any order.
jokes_by_score ==
    { o \in Orders(DOMAIN jokes) :
        \A i, k \in DOMAIN o : i < k => jokes[o[i]].vote_count <= jokes[o[k]].vote_count }

\* A plausible slip: the joke displayed is remembered as last_joke, as in
\* display_random_joke.
display_best_joke_results_m(u, m) ==
    LET g == private_get_user(u)
    IN  IF ~ g.found
        THEN { Answer(g, not_registered, NoJoke) }
        ELSE { IF joke # NoJoke
               THEN Result(users, jokes, jokes_voted_for,
                           [ g.user_data EXCEPT ![u].last_joke = joke ],
                           None, << "joke_body" >>, joke)
               ELSE Answer(g, << >>, joke)
               : joke \in { first_unseen(u, order) : order \in jokes_by_score } }

\* display_best_joke: nothing is replied when the loop finds no joke.
display_best_joke_results(u, m) ==
    LET g == private_get_user(u)
    IN  IF ~ g.found
        THEN { Answer(g, not_registered, NoJoke) }
        ELSE { Answer(g, IF joke # NoJoke THEN << "joke_body" >> ELSE << >>, joke)
               : joke \in { first_unseen(u, order) : order \in jokes_by_score } }

display_best_joke(u, m) ==
    /\ Selects(u, m, "display_best_joke")
    /\ \E r \in display_best_joke_results(u, m) : Handled(u, m, r)

\* A plausible slip: every vote counts as a positive one.
vote_positive_m(m) == TRUE

\* "if 'hah' in message.text": the message is /hah or /nah.
vote_positive(m) == m.command = "/hah"

\* A plausible slip: the key is left in user_data.
del_last_joke_m(ud, u) == ud

\* del user_data['last_joke']
del_last_joke(ud, u) == [ ud EXCEPT ![u].last_joke = NoJoke ]

\* A plausible slip: a rejected vote is reported to the user.
vote_for_joke_reply_m(raised) ==
    IF raised = "InvalidVote" THEN << "invalid_vote" >> ELSE << "after_vote" >>

\* The reply of the "finally" block of vote_for_joke: 'after_vote', whether
\* the vote was recorded or InvalidVote was caught.
vote_for_joke_reply(raised) == << "after_vote" >>

\* vote_for_joke: InvalidVote is logged; the "finally" block replies and
\* deletes last_joke on both paths.
vote_for_joke_result(u, m) ==
    LET g == private_get_user(u)
        joke == user_data[u].last_joke
        r == User_vote_for_joke(u, joke, vote_positive(m))
    IN  IF ~ g.found
        THEN Answer(g, not_registered, NoJoke)
        ELSE IF joke = NoJoke
        THEN Answer(g, << "joke_no_current" >>, NoJoke)
        ELSE Result(users, r.jokes, r.jokes_voted_for, del_last_joke(g.user_data, u),
                    None, vote_for_joke_reply(r.raised), NoJoke)

vote_for_joke(u, m) ==
    Selects(u, m, "vote_for_joke") /\ Handled(u, m, vote_for_joke_result(u, m))

profile_result(u, m) ==
    LET g == private_get_user(u)
    IN  Answer(g, IF g.found THEN << "profile" >> ELSE not_registered, NoJoke)

profile(u, m) == Selects(u, m, "profile") /\ Handled(u, m, profile_result(u, m))

top10_result(u, m) ==
    LET g == private_get_user(u)
    IN  Answer(g, IF g.found THEN << "top10" >> ELSE not_registered, NoJoke)

top10(u, m) == Selects(u, m, "top10") /\ Handled(u, m, top10_result(u, m))

\* What handling message m of u can leave behind: the results of the
\* callback the dispatcher selects.
callback_results(u, m) ==
    LET callback == handlers(u, m).callback
    IN  CASE callback = "menu" -> { menu_result(u, m) }
          [] callback = "help" -> { help_result(u, m) }
          [] callback = "cancel" -> { cancel_result(u, m) }
          [] callback = "new_user_prompt" -> { new_user_prompt_result(u, m) }
          [] callback = "new_user_received_username" ->
                { new_user_received_username_result(u, m) }
          [] callback = "new_joke_prompt" -> { new_joke_prompt_result(u, m) }
          [] callback = "new_joke_received" -> { new_joke_received_result(u, m) }
          [] callback = "display_random_joke" -> display_random_joke_results(u, m)
          [] callback = "display_random_favorite_joke" ->
                display_random_favorite_joke_results(u, m)
          [] callback = "display_best_joke" -> display_best_joke_results(u, m)
          [] callback = "vote_for_joke" -> { vote_for_joke_result(u, m) }
          [] callback = "profile" -> { profile_result(u, m) }
          [] callback = "top10" -> { top10_result(u, m) }

\* ------------------------------------------------------------ specification
\* The messages with command c, and the plain texts; Selects in each action
\* decides whether the dispatcher gives the message to that callback.
Command(c) == { m \in Messages : m.command = c }

PlainText == { m \in Messages : Filters_text(m) }

VoteMessages == Command("/hah") \cup Command("/nah")

Next ==
    \/ \E u \in Identities, m \in Messages : menu(u, m)
    \/ \E u \in Identities, m \in Command("/help") : help(u, m)
    \/ \E u \in Identities, m \in Command("/cancel") : cancel(u, m)
    \/ \E u \in Identities, m \in Command(RegisterButton) : new_user_prompt(u, m)
    \/ \E u \in Identities, m \in PlainText : new_user_received_username(u, m)
    \/ \E u \in Identities, m \in Command("/add_joke") : new_joke_prompt(u, m)
    \/ \E u \in Identities, m \in PlainText : new_joke_received(u, m)
    \/ \E u \in Identities, m \in Command("/random_joke") : display_random_joke(u, m)
    \/ \E u \in Identities, m \in Command("/random_favorite_joke") :
          display_random_favorite_joke(u, m)
    \/ \E u \in Identities, m \in Command("/best_joke") : display_best_joke(u, m)
    \/ \E u \in Identities, m \in VoteMessages : vote_for_joke(u, m)
    \/ \E u \in Identities, m \in Command("/profile") : profile(u, m)
    \/ \E u \in Identities, m \in Command("/top10") : top10(u, m)

Spec == Init /\ [][Next]_vars

\* ------------------------------------------------- the vote handler alone
\* The body every joke of these stores has.
JokeBody == << Run("a", 10) >>

\* The votes a user can have on record: at most one per joke, none on a
\* joke the user wrote (User.vote_for_joke records no other).
VoteRecords(jk) ==
    { jv \in [ Identities -> SUBSET ((DOMAIN jk) \X BOOLEAN) ] :
        \A u \in Identities :
           /\ \A v \in jv[u] : jk[v[1]].author # u
           /\ \A v, w \in jv[u] : v[1] = w[1] => v = w }

\* The stores vote_for_joke can be handed: both users registered, MaxJokes
\* jokes of any authors, any recorded votes with the vote_counts they give, and a
\* last_joke that is any joke or absent.  user_data is the dispatcher's
\* in-memory dict and is not tied to the tables, so last_joke can name a
\* joke its user wrote or has a vote on: the case the handler's
\* "except InvalidVote" is there for.
VoteInit ==
    /\ users = [ u \in Identities |-> [ username |-> << Run("a", 10) >>, score |-> 0 ] ]
    /\ \E authors \in [ 0..(MaxJokes - 1) -> Identities ] :
          \E jv \in VoteRecords([ j \in 0..(MaxJokes - 1) |-> [ author |-> authors[j] ] ]) :
             /\ jokes_voted_for = jv
             /\ jokes = [ j \in 0..(MaxJokes - 1) |->
                    [ body |-> JokeBody,
                      vote_count |->
                         Cardinality({ u \in Identities : << j, TRUE >> \in jv[u] })
                         - Cardinality({ u \in Identities : << j, FALSE >> \in jv[u] }),
                      author |-> authors[j] ] ]
    /\ user_data \in [ Identities ->
                        [ current_user : BOOLEAN, user : { FALSE },
                          last_joke : { NoJoke } \cup 0..(MaxJokes - 1) ] ]
    /\ new_user_conv = [ u \in Identities |-> None ]
    /\ new_joke_conv = [ u \in Identities |-> None ]

VoteNext == \E u \in Identities, m \in VoteMessages : vote_for_joke(u, m)

VoteSpec == VoteInit /\ [][VoteNext]_vars

\* ------------------------------------------------ display_best_joke alone
\* The vote_counts of the stores below: a joke's count also holds the votes
\* of users other than the two that send messages here.
VoteCounts == { -1, 0, 1 }

\* The votes on record when only user u has voted: by_u[j] is "hah", "nah"
\* or "" for each joke j; a user has no vote on a joke of their own.
VotesOfOne(u, authors, by_u) ==
    [ w \in Identities |->
        IF w = u
        THEN { << j, by_u[j] = "hah" >> :
                 j \in { k \in DOMAIN authors : by_u[k] # "" /\ authors[k] # u } }
        ELSE {} ]

\* The stores display_best_joke can be handed: both users registered and
\* cached, MaxJokes + 1 jokes of any authors and vote_counts, no last_joke,
\* and any recorded votes of one of the two users (what a user is shown
\* does not depend on the other user's records, only on the vote_counts).
BestInit ==
    /\ users = [ u \in Identities |-> [ username |-> << Run("a", 10) >>, score |-> 0 ] ]
    /\ \E authors \in [ 0..MaxJokes -> Identities ], counts \in [ 0..MaxJokes -> VoteCounts ] :
          /\ jokes = [ j \in 0..MaxJokes |->
                 [ body |-> JokeBody, vote_count |-> counts[j], author |-> authors[j] ] ]
          /\ \E u \in Identities, by_u \in [ 0..MaxJokes -> { "", "hah", "nah" } ] :
                jokes_voted_for = VotesOfOne(u, authors, by_u)
    /\ user_data = [ u \in Identities |->
                       [ current_user |-> TRUE, user |-> FALSE, last_joke |-> NoJoke ] ]
    /\ new_user_conv = [ u \in Identities |-> None ]
    /\ new_joke_conv = [ u \in Identities |-> None ]

BestNext == \E u \in Identities, m \in Command("/best_joke") : display_best_joke(u, m)

BestSpec == BestInit /\ [][BestNext]_vars

\* ------------------------------------------- the private add methods alone
\* The usernames private_add_user is called with: around both length limits,
\* with and without characters outside the charset.
Usernames ==
    { << >>,                                          \* ""
      << Run("b", 1), Run("o", 1) >>,                 \* "bo"
      << Run("a", 4) >>,
      << Run("a", 5) >>,
      << Run("b", 1), Run("o", 1), Run("1", 1), Run("2", 1),
         Run("3", 1), Run("4", 1), Run("5", 1) >>,    \* "bo12345"
      << Run("A", 1), Run("z", 1), Run("0", 1), Run("-", 1), Run("_", 16) >>,
      << Run("a", 20) >>,
      << Run("a", 21) >>,
      << Run("!", 1) >>,                              \* short, not allowed
      << Run("a", 4), Run(" ", 1) >>,                 \* 5 long, not allowed
      << Run("a", 19), Run(".", 1) >>,                \* 20 long, not allowed
      << Run("a", 21), Run("@", 1) >> }               \* long, not allowed

\* The joke bodies private_add_joke is called with: around both limits.
JokeBodies ==
    { << >>,
      << Run("a", 9) >>,
      << Run("a", 10) >>,
      << Run("a", 3), Run(" ", 1), Run("!", 6) >>,
      << Run("a", 1000) >>,
      << Run("a", 1001) >> }

\* private_add_user called for identity u.
add_user(u, username) ==
    /\ users' = private_add_user(u, username).users
    /\ UNCHANGED << jokes, jokes_voted_for, user_data, new_user_conv, new_joke_conv >>

\* private_add_joke called for a registered author; at most MaxJokes jokes
\* are stored in a run.
add_joke(joke_body, author) ==
    /\ author \in DOMAIN users
    /\ private_add_joke(joke_body, author).raised = ""
          => Cardinality(DOMAIN jokes) < MaxJokes
    /\ jokes' = private_add_joke(joke_body, author).jokes
    /\ UNCHANGED << users, jokes_voted_for, user_data, new_user_conv, new_joke_conv >>

RegistryNext ==
    \/ \E u \in Identities, username \in Usernames : add_user(u, username)
    \/ \E author \in Identities, joke_body \in JokeBodies : add_joke(joke_body, author)

RegistrySpec == Init /\ [][RegistryNext]_vars

\* ------------------------------------------------------------------- types
TypeOK ==
    /\ DOMAIN users \subseteq Identities
    /\ \A j \in DOMAIN jokes : jokes[j].author \in Identities
    /\ \A u \in Identities : user_data[u].last_joke \in DOMAIN jokes \cup { NoJoke }
    /\ \A u \in Identities : new_user_conv[u] \in { None, USERNAME_RECEIVED }
    /\ \A u \in Identities : new_joke_conv[u] \in { None, JOKE_RECEIVED }

\* ------------------------------------------------- the session's flow state
\* The registration flow awaits a username from u.
AWAITING_USERNAME(u) == new_user_conv[u] = USERNAME_RECEIVED

\* The joke-submission flow awaits a joke body from u.
AWAITING_JOKE_BODY(u) == new_joke_conv[u] = JOKE_RECEIVED

\* Neither flow awaits input from u.
IDLE(u) == new_user_conv[u] = None /\ new_joke_conv[u] = None

ValidationErrors == { "InvalidCharacters", "TooShort", "TooLong" }

\* ------------------------------------------------------------------ claims

\* C1: when the session awaits a username and a not yet registered user
\* sends a username that passes validation, the User is created and the
\* session is IDLE after the message.
C1_RegistrationLeavesFlow ==
    [][ \A u \in Identities, m \in PlainText :
          ( /\ AWAITING_USERNAME(u)
            /\ u \notin DOMAIN users
            /\ private_add_user(u, m.text).raised = ""
            /\ new_user_received_username(u, m) )
          => ( u \in DOMAIN users' /\ IDLE(u)' ) ]_vars

\* C2: when the session awaits a joke body and a registered user sends a
\* body that passes validation, exactly one Joke is created and the session
\* is IDLE after the message.
C2_SubmissionLeavesFlow ==
    [][ \A u \in Identities, m \in PlainText :
          ( /\ AWAITING_JOKE_BODY(u)
            /\ private_get_user(u).found
            /\ private_add_joke(m.text, u).raised = ""
            /\ new_joke_received(u, m) )
          => ( /\ Cardinality(DOMAIN jokes') = Cardinality(DOMAIN jokes) + 1
               /\ IDLE(u)' ) ]_vars

\* C3: in every reachable state no session has both flows awaiting input.
C3_SingleActiveFlow ==
    \A u \in Identities : ~ (AWAITING_USERNAME(u) /\ AWAITING_JOKE_BODY(u))

\* C4: /cancel sent while a flow awaits input leaves the session IDLE and
\* changes no User, Joke or vote.
C4_CancelLeavesFlow ==
    [][ \A u \in Identities, m \in Command("/cancel") :
          ( /\ AWAITING_USERNAME(u) \/ AWAITING_JOKE_BODY(u)
            /\ cancel(u, m) )
          => ( IDLE(u)' /\ UNCHANGED data ) ]_vars

C6_NoSelfOrDoubleVote ==
    \A u \in Identities :
       /\ \A v \in jokes_voted_for[u] : jokes[v[1]].author # u
       /\ \A v, w \in jokes_voted_for[u] : v[1] = w[1] => v = w

\* C6 witness: a user who wrote a joke has a recorded vote on another one.
C6_Witness ==
    \E u \in Identities :
       /\ jokes_voted_for[u] # {}
       /\ \E j \in DOMAIN jokes : jokes[j].author = u

\* The users with a recorded vote of the given polarity on joke j.
Voters(j, polarity) == { u \in Identities : << j, polarity >> \in jokes_voted_for[u] }

C9_NothingToVoteOn ==
    \A u \in Identities, m \in VoteMessages :
       ( Selects(u, m, "vote_for_joke") /\ private_get_user(u).found )
       => LET r == vote_for_joke_result(u, m)
          IN  /\ user_data[u].last_joke = NoJoke
                 => /\ r.reply = << "joke_no_current" >>
                    /\ r.jokes = jokes
                    /\ r.jokes_voted_for = jokes_voted_for
              /\ r.user_data[u].last_joke = NoJoke

\* C9 witness: a user with a recorded vote and no last shown joke sends /hah.
C9_Witness ==
    \E u \in Identities, m \in Command("/hah") :
       /\ Selects(u, m, "vote_for_joke")
       /\ private_get_user(u).found
       /\ jokes_voted_for[u] # {}
       /\ user_data[u].last_joke = NoJoke

\* C10: the joke /random_joke shows to a registered user is not one the
\* user wrote and not one the user has a recorded vote on; recorded votes
\* are never removed, so a joke voted on is not shown to the user again.
C10_UnseenFilter ==
    /\ [] ( \A u \in Identities, m \in Command("/random_joke") :
              ( Selects(u, m, "display_random_joke") /\ private_get_user(u).found )
              => \A r \in display_random_joke_results(u, m) :
                    r.shown # NoJoke
                    => /\ r.shown \in DOMAIN jokes
                       /\ jokes[r.shown].author # u
                       /\ \A v \in jokes_voted_for[u] : v[1] # r.shown )
    /\ [][ \A u \in Identities : jokes_voted_for[u] \subseteq jokes_voted_for'[u] ]_vars

\* C10 witness: a user who wrote one joke and has voted on another sends
\* /random_joke.
C10_Witness ==
    \E u \in Identities, m \in Command("/random_joke") :
       /\ Selects(u, m, "display_random_joke")
       /\ jokes_voted_for[u] # {}
       /\ \E j \in DOMAIN jokes : jokes[j].author = u

\* C11: when vote_for_joke runs for a registered user with a last_joke,
\* last_joke is cleared and the reply is the same 'after_vote' whether the
\* vote is recorded or rejected as InvalidVote; a rejected vote changes no
\* vote_count and no recorded vote.
C11_FailOpenVote ==
    \A u \in Identities, m \in VoteMessages :
       ( /\ Selects(u, m, "vote_for_joke")
         /\ private_get_user(u).found
         /\ user_data[u].last_joke # NoJoke )
       => LET r == vote_for_joke_result(u, m)
              v == User_vote_for_joke(u, user_data[u].last_joke, vote_positive(m))
          IN  /\ r.user_data[u].last_joke = NoJoke
              /\ r.reply = << "after_vote" >>
              /\ v.raised = "InvalidVote"
                    => /\ r.jokes = jokes
                       /\ r.jokes_voted_for = jokes_voted_for
                       /\ r.users = users

\* C11 witness: a user's last_joke is a joke the user has a vote on already,
\* another user's last_joke is one that user wrote, and each sends a vote.
C11_Witness ==
    \E u, w \in Identities, m \in VoteMessages :
       /\ u # w
       /\ Selects(u, m, "vote_for_joke") /\ Selects(w, m, "vote_for_joke")
       /\ private_get_user(u).found /\ private_get_user(w).found
       /\ user_data[u].last_joke \in jokes_voted(u)
       /\ user_data[w].last_joke \in jokes_submitted(w)

\* The commands that need a registered user.
GatedCommands ==
    { "/random_joke", "/random_favorite_joke", "/best_joke", "/profile", "/top10",
      "/hah", "/nah" }

C13_NoUnseenJoke ==
    \A u \in Identities, m \in Command("/random_joke") :
       ( /\ Selects(u, m, "display_random_joke")
         /\ private_get_user(u).found
         /\ \A j \in DOMAIN jokes :
               jokes[j].author = u \/ \E v \in jokes_voted_for[u] : v[1] = j )
       => \A r \in display_random_joke_results(u, m) :
             /\ r.reply = << "no_new_jokes" >>
             /\ r.shown = NoJoke
             /\ r.user_data[u].last_joke = user_data[u].last_joke
             /\ << r.users, r.jokes, r.jokes_voted_for >> = data

\* C13 witness: a registered user who sends /random_joke has no joke left
\* to see, having written one joke and voted on every other; the other
\* user has not voted.
C13_Witness ==
    \E u, w \in DOMAIN users, m \in Command("/random_joke") :
       /\ u # w
       /\ Selects(u, m, "display_random_joke")
       /\ private_get_user(u).found
       /\ DOMAIN jokes = jokes_submitted(u) \cup jokes_voted(u)
       /\ jokes_submitted(u) # {} /\ jokes_voted(u) # {}
       /\ jokes_voted(w) = {}

\* The characters the specification allows in a username: A-Z, a-z, 0-9,
\* '-' and '_'.
AllowedInSpec ==
    { "A","B","C","D","E","F","G","H","I","J","K","L","M","N","O","P","Q","R",
      "S","T","U","V","W","X","Y","Z","a","b","c","d","e","f","g","h","i","j",
      "k","l","m","n","o","p","q","r","s","t","u","v","w","x","y","z",
      "0","1","2","3","4","5","6","7","8","9","-","_" }

\* Every character of s is allowed.
AllAllowed(s) == \A i \in DOMAIN s : s[i][2] > 0 => s[i][1] \in AllowedInSpec

\* C14: for every string s and every identity without a User,
\* private_add_user creates exactly the User [username s, score 0] of that
\* identity if 5 <= len(s) <= 20 and every character of s is allowed, and
\* creates nothing otherwise.
C14_UsernameValidation ==
    \A u \in Identities \ DOMAIN users, s \in Usernames :
       LET r == private_add_user(u, s)
       IN  IF 5 <= len(s) /\ len(s) <= 20 /\ AllAllowed(s)
           THEN /\ r.raised = ""
                /\ DOMAIN r.users = DOMAIN users \cup { u }
                /\ r.users[u] = [ username |-> s, score |-> 0 ]
                /\ \A w \in DOMAIN users : r.users[w] = users[w]
           ELSE /\ r.raised \in ValidationErrors
                /\ r.users = users

\* C14 witness: one identity is registered under a username of 5
\* characters, and the other one, not registered, is about to be tried
\* with every username.
C14_Witness ==
    \E u \in Identities \ DOMAIN users, w \in DOMAIN users :
       /\ len(users[w].username) = 5
       /\ \E s \in Usernames : private_add_user(u, s).raised = "InvalidCharacters"
       /\ \E s \in Usernames : len(s) = 20 /\ private_add_user(u, s).raised = ""

\* C15: for every string b and every registered author, private_add_joke
\* creates exactly one Joke, with body b, vote_count 0 and that author, if
\* 10 <= len(b) <= 1000; it raises TooShort if len(b) < 10 and TooLong if
\* len(b) > 1000, creating nothing.
C15_JokeValidation ==
    \A author \in DOMAIN users, b \in JokeBodies :
       LET r == private_add_joke(b, author)
           created == DOMAIN r.jokes \ DOMAIN jokes
       IN  /\ \A j \in DOMAIN jokes : j \in DOMAIN r.jokes /\ r.jokes[j] = jokes[j]
           /\ ( 10 <= len(b) /\ len(b) <= 1000 )
                 => /\ r.raised = ""
                    /\ Cardinality(created) = 1
                    /\ \A j \in created :
                          r.jokes[j] = [ body |-> b, vote_count |-> 0, author |-> author ]
           /\ len(b) < 10 => ( r.raised = "TooShort" /\ created = {} )
           /\ len(b) > 1000 => ( r.raised = "TooLong" /\ created = {} )

\* C15 witness: a joke of 10 and a joke of 1000 characters are stored, by
\* different authors.
C15_Witness ==
    \E j, k \in DOMAIN jokes :
       /\ len(jokes[j].body) = 10 /\ len(jokes[k].body) = 1000
       /\ jokes[j].author # jokes[k].author

\* C16: in every reachable state the joke ids are 0, ..., n-1 for n jokes,
\* and a submission that passes validation stores its joke under id n, the
\* number of jokes stored before, whoever submits and whatever votes and
\* failed submissions came in between.
C16_JokeIds ==
    /\ [] ( DOMAIN jokes = 0 .. (Cardinality(DOMAIN jokes) - 1) )
    /\ [][ /\ DOMAIN jokes \subseteq DOMAIN jokes'
           /\ \A u \in Identities, m \in PlainText :
                 ( /\ private_get_user(u).found
                   /\ len(m.text) >= 10 /\ len(m.text) <= 1000
                   /\ new_joke_received(u, m) )
                 => /\ Cardinality(DOMAIN jokes) \notin DOMAIN jokes
                    /\ DOMAIN jokes' = DOMAIN jokes \cup { Cardinality(DOMAIN jokes) }
                    /\ jokes'[Cardinality(DOMAIN jokes)].author = u ]_vars

\* C16 witness: jokes 0 and 1 are stored, written by different users, and a
\* vote on joke 0 was recorded before joke 1 was the last one shown.
C16_Witness ==
    /\ DOMAIN jokes = { 0, 1 }
    /\ jokes[0].author # jokes[1].author
    /\ jokes[0].vote_count # 0
    /\ \E u \in Identities : user_data[u].last_joke = 1

\* C17: no User and no Joke is ever removed; a User keeps its identity and
\* username and a Joke its id, body and author; there is one User row per
\* identity.  A text handed to new_user_received_username for an identity
\* that has a User creates no User and leaves every User row as it is.
C17_CreatedOnce ==
    /\ [] ( \A u \in DOMAIN users, m \in PlainText :
               Selects(u, m, "new_user_received_username")
               => new_user_received_username_result(u, m).users = users )
    /\ [][ /\ \A u \in DOMAIN users :
                 u \in DOMAIN users' /\ users'[u].username = users[u].username
           /\ \A j \in DOMAIN jokes :
                 /\ j \in DOMAIN jokes'
                 /\ jokes'[j].body = jokes[j].body
                 /\ jokes'[j].author = jokes[j].author ]_vars

\* C17 witness: a registered identity is awaiting a username and sends one
\* that passes validation and is not the one it is registered under.
C17_Witness ==
    \E u \in DOMAIN users, m \in PlainText :
       /\ Selects(u, m, "new_user_received_username")
       /\ private_add_user(u, m.text).raised = "AssertionError"
       /\ m.text # users[u].username

\* C18: private_add_user checks the characters first, then the minimum and
\* then the maximum length: a username with a character that is not
\* allowed raises InvalidCharacters whatever its length, one of allowed
\* characters shorter than 5 (the empty one too) raises TooShort, one of
\* allowed characters longer than 20 raises TooLong.
C18_UsernameErrorPrecedence ==
    \A u \in Identities, s \in Usernames :
       LET raised == private_add_user(u, s).raised
       IN  /\ ~ AllAllowed(s) => raised = "InvalidCharacters"
           /\ ( AllAllowed(s) /\ len(s) < 5 ) => raised = "TooShort"
           /\ ( AllAllowed(s) /\ len(s) > 20 ) => raised = "TooLong"

\* C18 witness: with one identity registered and one not, private_add_user
\* is given a short and a long username with a character that is not
\* allowed, the empty username and a long one of allowed characters.
C18_Witness ==
    /\ DOMAIN users # {} /\ DOMAIN users # Identities
    /\ \E s, t \in Usernames :
          /\ ~ AllAllowed(s) /\ len(s) < 5 /\ ~ AllAllowed(t) /\ len(t) > 20
          /\ \A u \in Identities :
                /\ private_add_user(u, s).raised = "InvalidCharacters"
                /\ private_add_user(u, t).raised = "InvalidCharacters"
                /\ private_add_user(u, << >>).raised = "TooShort"
                /\ private_add_user(u, << Run("a", 21) >>).raised = "TooLong"

C21_LastJokeFrame ==
    /\ [] ( \A u \in Identities, m \in Messages :
               \A r \in callback_results(u, m) :
                  /\ \A w \in Identities \ { u } :
                        r.user_data[w].last_joke = user_data[w].last_joke
                  /\ handlers(u, m).callback = "display_random_joke"
                        => r.user_data[u].last_joke =
                              IF r.shown # NoJoke THEN r.shown ELSE user_data[u].last_joke
                  /\ handlers(u, m).callback = "vote_for_joke"
                        => LET X == user_data[u].last_joke
                           IN  /\ r.user_data[u].last_joke = NoJoke
                               /\ r.jokes_voted_for[u] \ jokes_voted_for[u]
                                     \subseteq { << X, TRUE >>, << X, FALSE >> }
                               /\ ( X = NoJoke /\ private_get_user(u).found )
                                     => /\ r.reply = << "joke_no_current" >>
                                        /\ r.jokes_voted_for = jokes_voted_for
                  /\ handlers(u, m).callback \notin { "display_random_joke", "vote_for_joke" }
                        => r.user_data[u].last_joke = user_data[u].last_joke )
    /\ [][ \A u \in Identities :
             user_data'[u].last_joke # user_data[u].last_joke
             => \/ /\ user_data'[u].last_joke # NoJoke
                   /\ \E m \in Command("/random_joke") : display_random_joke(u, m)
                \/ /\ user_data'[u].last_joke = NoJoke
                   /\ \E m \in VoteMessages : vote_for_joke(u, m) ]_vars

\* C21 witness: the joke /random_joke showed to a registered user is still
\* to be voted on when the user sends /best_joke, which displays another
\* joke.
C21_Witness ==
    \E u \in Identities, m \in Command("/best_joke") :
       /\ Selects(u, m, "display_best_joke")
       /\ private_get_user(u).found
       /\ user_data[u].last_joke # NoJoke
       /\ \E r \in display_best_joke_results(u, m) :
             r.shown # NoJoke /\ r.shown # user_data[u].last_joke

====
